---- MODULE Spec2Model ----
(***************************************************************************)
(* Model of the three terminal effects Snow, MoreSnow and Christmas        *)
(* (src/effect_snow.py, src/effect_moresnow.py, src/effect_christmas.py).  *)
(* One tick of an effect is one call of its iterator's __next__.  The      *)
(* animation engine (paths, scenes, the canvas) is not part of the         *)
(* repository: a path is the sequence of its waypoints, a character with   *)
(* an active path is moved along it by update(), and how far it gets in    *)
(* one update is left open.                                                *)
(***************************************************************************)
EXTENDS Integers, Sequences, FiniteSets, TLC

(***************************************************************************)
(* Bounds of the model.                                                    *)
(***************************************************************************)
\* columns of the widest canvas the path generator is run on
MaxWidth == 7
\* rows of the tallest canvas the path generator is run on
MaxHeight == 4
\* background snowflakes created in one Christmas run
MaxSnow == 1
\* background snowflakes created in a Christmas run that is followed to its end
MaxHoldSnow == 1
\* ticks of the hold phase a Christmas run is followed for, unless to its end
MaxHoldTicks == 8

\* snowflakes a Christmas run followed for its spawn timing may create
MaxSpawnSnow == 2
\* background snowflakes created in one MoreSnow run
MaxMoreSnow == 6
\* the most time that passes between two ticks of MoreSnow
MaxTimeStep == 10
\* characters of the tree art that are modelled (a prefix of TreeSample)
MaxTree == 3
\* characters of the input text of Christmas and MoreSnow
MaxText == 1
\* characters of the input text of Snow when its snow is fast
MaxSnowText == 2

Max(a, b) == IF a >= b THEN a ELSE b
Min(a, b) == IF a <= b THEN a ELSE b

(***************************************************************************)
(* The canvas.  Rows grow upwards: bottom is the smallest row, top the     *)
(* largest (fall_distance = top - bottom is what the fall paths assume).   *)
(***************************************************************************)
Canvases ==
    { [left |-> 1, right |-> w, top |-> h, bottom |-> 1] :
        w \in 1..MaxWidth, h \in 2..MaxHeight }

\* the canvases the effects are run on: two columns, and one column
WideCanvas == [left |-> 1, right |-> 2, top |-> 2, bottom |-> 1]
NarrowCanvas == [left |-> 1, right |-> 1, top |-> 2, bottom |-> 1]

\* snowflakes a Christmas run on canvas cv may create
SnowBudget(cv) == IF cv.right = cv.left THEN MaxSnow ELSE Min(MaxSnow, 1)

Coord(column, row) == [column |-> column, row |-> row]

\* max(canvas.left, min(canvas.right, column))
ClampColumn(cv, column) == Max(cv.left, Min(cv.right, column))

(***************************************************************************)
(* The fall path generator.  num_sways is random.randint(2, 4); amounts[i] *)
(* is the random.randint(1, 3) drawn in iteration i of the sway loop.      *)
(***************************************************************************)
NumSways == 2..4
SwayAmount == 1..3
SwayAmounts(num_sways) == [1..(num_sways - 1) -> SwayAmount]

\* a sway direction that starts to the right
SwayDirectionRightFirst(i) == IF i % 2 = 0 THEN -1 ELSE 1

\* sway_direction = 1 if i % 2 == 0 else -1
SwayDirection(i) == IF i % 2 = 0 THEN 1 ELSE -1

\* current_column after iteration i of the sway loop (not clamped)
RECURSIVE CurrentColumn(_, _, _)
CurrentColumn(start_column, amounts, i) ==
    IF i = 0 THEN start_column
    ELSE CurrentColumn(start_column, amounts, i - 1) + SwayDirection(i) * amounts[i]

\* sway_row = canvas.top - int(fall_distance * (i / num_sways)); fall_distance >= 0
SwayRow(cv, fall_distance, num_sways, i) ==
    cv.top - ((fall_distance * i) \div num_sways)

\* the waypoints added by "for i in range(1, num_sways)"
SwayWaypoints(cv, start_column, end_row, num_sways, amounts) ==
    [ i \in 1..(num_sways - 1) |->
        Coord(ClampColumn(cv, CurrentColumn(start_column, amounts, i)),
              SwayRow(cv, cv.top - end_row, num_sways, i)) ]

\* BackgroundFallPath with the final column left unclamped
BackgroundFallPathUnclamped(cv, snow_col, num_sways, amounts) ==
    Append(SwayWaypoints(cv, snow_col, cv.bottom, num_sways, amounts),
           Coord(CurrentColumn(snow_col, amounts, num_sways - 1), cv.bottom))

\* BackgroundFallPath without its final waypoint
BackgroundFallPathNoFinal(cv, snow_col, num_sways, amounts) ==
    SwayWaypoints(cv, snow_col, cv.bottom, num_sways, amounts)

\* spawn_background_snowflake: sways, then a final waypoint at the bottom
BackgroundFallPath(cv, snow_col, num_sways, amounts) ==
    Append(SwayWaypoints(cv, snow_col, cv.bottom, num_sways, amounts),
           Coord(ClampColumn(cv, CurrentColumn(snow_col, amounts, num_sways - 1)),
                 cv.bottom))

\* the paths spawn_background_snowflake can build for a snowflake of column snow_col
BackgroundFallPaths(cv, snow_col) ==
    UNION { { BackgroundFallPath(cv, snow_col, num_sways, amounts) :
                amounts \in SwayAmounts(num_sways) } : num_sways \in NumSways }

\* build (Snow, MoreSnow): sways, then a final waypoint at the input position
TextFallPath(cv, input_coord, num_sways, amounts) ==
    Append(SwayWaypoints(cv, input_coord.column, input_coord.row, num_sways, amounts),
           input_coord)

(***************************************************************************)
(* The tree art of Christmas.build.  The art has 310 characters; the model *)
(* keeps MaxTree of them, in the order build enumerates them.              *)
(***************************************************************************)
\* len(tree_lines)
TreeHeight == 22
\* max(len(line) for line in tree_lines)
MaxLineWidth == 48

TreeSample ==
    << [line |-> 0,  offset |-> 24, symbol |-> ","],
       [line |-> 5,  offset |-> 23, symbol |-> "."],
       [line |-> 6,  offset |-> 22, symbol |-> "o"],
       [line |-> 20, offset |-> 23, symbol |-> "#"],
       [line |-> 21, offset |-> 8,  symbol |-> "'"] >>

OrnamentSymbols == {"*", "@", "&", "%", "O", "o", "+"}

\* is_star or is_bauble
ShouldPop(t) == t.line < 4 \/ t.symbol \in OrnamentSymbols

\* the tree characters of build, with their final position
TreeChars(cv) ==
    LET terminal_width == cv.right - cv.left + 1
        center_col == cv.left + (terminal_width \div 2)
        start_col == center_col - (MaxLineWidth \div 2)
    IN [ i \in 1..MaxTree |->
           [ symbol |-> TreeSample[i].symbol,
             final |-> Coord(start_col + TreeSample[i].offset,
                             cv.bottom + (TreeHeight - 1 - TreeSample[i].line)),
             should_pop |-> ShouldPop(TreeSample[i]) ] ]

\* list.sort(key=...): a stable insertion sort of seq by ascending key
RECURSIVE InsertByKey(_, _, _)
InsertByKey(sorted, x, key) ==
    IF sorted = <<>> THEN <<x>>
    ELSE IF key[x] < key[Head(sorted)] THEN <<x>> \o sorted
    ELSE <<Head(sorted)>> \o InsertByKey(Tail(sorted), x, key)

RECURSIVE SortByKey(_, _)
SortByKey(seq, key) ==
    IF seq = <<>> THEN <<>>
    ELSE InsertByKey(SortByKey(SubSeq(seq, 1, Len(seq) - 1), key), seq[Len(seq)], key)

(***************************************************************************)
(* The input text: k characters wrapped at line width w, first line on the *)
(* top row.                                                                *)
(***************************************************************************)
InputText(cv, k, w) ==
    [ j \in 1..k |-> Coord(cv.left + ((j - 1) % w), cv.top - ((j - 1) \div w)) ]

\* the line widths at which k characters fit on the canvas
LineWidths(cv, k) ==
    { w \in 1..(cv.right - cv.left + 1) : k <= w * (cv.top - cv.bottom + 1) }

(***************************************************************************)
(* State.                                                                  *)
(***************************************************************************)
VARIABLES
    variant,              \* "Christmas", "MoreSnow", "Snow" or "Path"
    canvas,               \* terminal.canvas
    pending_chars,        \* indices of tree_chars (Christmas) or input_chars
    tree_chars,           \* Christmas: per tree character [coord, path]
    input_chars,          \* terminal.get_characters(): [input_coord, coord, path]
    active_characters,    \* <<"tree", i>>, <<"input", i>>, <<"snow", id>>
    background_snow,      \* list of snowflakes [id, coord, path, stacks]; stacks
                          \* counts how often the landing check has stacked it
    bottom_pile_height,   \* dict column -> height
    text_spawn_delay,
    background_spawn_delay,
    text_complete,
    fadeout_counter,
    spawn_stopped,
    lights_to_activate,   \* indices of tree_chars
    light_delay,
    input_chars_revealed,
    snow_accelerated,
    lit,                  \* tree characters whose bright scene was activated, in
                          \* the order of the activations
    snow_created,         \* snowflakes created so far (the id of the last one)
    elapsed,              \* MoreSnow: time.time() - start_time at the last tick
    stopped,              \* the last tick raised StopIteration
    released,             \* characters popped from pending_chars by the last tick
    spawned,              \* ids of the snowflakes created by the last tick
    path_speeds,          \* Christmas: the snow paths created by the last tick, each
                          \* with its speed in tenths of config.movement_speed (the
                          \* random.uniform(0.7, 1.3) factor of a spawn left out)
    landing_log,          \* what the last tick's landing check did, in order
    hold_ticks,           \* ticks since the first one that incremented fadeout_counter
    steps,                \* the steps of the last tick of __next__, in the order they ran
    ticks,                \* MoreSnow: calls of __next__ so far
    batch_ticks,          \* MoreSnow: the ticks that spawned a batch, in order
    since_spawn,          \* Christmas: ticks since the last one that created a
                          \* snowflake, counted up to 3 (3 at the start)
    gen,                  \* the last path built by the generator
    slow_snow,            \* config.movement_speed is slow: snow may linger
    snow_budget,          \* bound: snowflakes the run may create
    horizon               \* bound: hold ticks the run is followed for

vars ==
    << variant, canvas, pending_chars, tree_chars, input_chars, active_characters,
       background_snow, bottom_pile_height, text_spawn_delay, background_spawn_delay,
       text_complete, fadeout_counter, spawn_stopped, lights_to_activate, light_delay,
       input_chars_revealed, snow_accelerated, lit, snow_created, elapsed, stopped,
       released, spawned, path_speeds, landing_log, hold_ticks, steps, ticks, batch_ticks,
       since_spawn, gen,
       slow_snow, snow_budget, horizon >>

\* the iterator's fields as one record
State ==
    [ canvas |-> canvas, pending_chars |-> pending_chars, tree_chars |-> tree_chars,
      input_chars |-> input_chars, active_characters |-> active_characters,
      background_snow |-> background_snow, bottom_pile_height |-> bottom_pile_height,
      text_spawn_delay |-> text_spawn_delay,
      background_spawn_delay |-> background_spawn_delay,
      text_complete |-> text_complete, fadeout_counter |-> fadeout_counter,
      spawn_stopped |-> spawn_stopped, lights_to_activate |-> lights_to_activate,
      light_delay |-> light_delay, input_chars_revealed |-> input_chars_revealed,
      snow_accelerated |-> snow_accelerated, lit |-> lit, snow_created |-> snow_created,
      elapsed |-> elapsed, stopped |-> FALSE, released |-> <<>>, spawned |-> {},
      path_speeds |-> {},
      landing_log |-> <<>>, hold_ticks |-> hold_ticks, steps |-> <<>>, ticks |-> ticks,
      batch_ticks |-> batch_ticks, since_spawn |-> since_spawn, snow_budget |-> snow_budget,
      slow_snow |-> slow_snow, text_lingers |-> (variant = "Christmas" \/ slow_snow) ]

\* the next state is the record s
Becomes(s) ==
    /\ canvas' = s.canvas
    /\ pending_chars' = s.pending_chars
    /\ tree_chars' = s.tree_chars
    /\ input_chars' = s.input_chars
    /\ active_characters' = s.active_characters
    /\ background_snow' = s.background_snow
    /\ bottom_pile_height' = s.bottom_pile_height
    /\ text_spawn_delay' = s.text_spawn_delay
    /\ background_spawn_delay' = s.background_spawn_delay
    /\ text_complete' = s.text_complete
    /\ fadeout_counter' = s.fadeout_counter
    /\ spawn_stopped' = s.spawn_stopped
    /\ lights_to_activate' = s.lights_to_activate
    /\ light_delay' = s.light_delay
    /\ input_chars_revealed' = s.input_chars_revealed
    /\ snow_accelerated' = s.snow_accelerated
    /\ lit' = s.lit
    /\ snow_created' = s.snow_created
    /\ elapsed' = s.elapsed
    /\ stopped' = s.stopped
    /\ released' = s.released
    /\ spawned' = s.spawned
    /\ path_speeds' = s.path_speeds
    /\ landing_log' = s.landing_log
    /\ hold_ticks' = s.hold_ticks
    /\ steps' = s.steps
    /\ ticks' = s.ticks
    /\ batch_ticks' = s.batch_ticks
    /\ since_spawn' = s.since_spawn

NoPath == [kind |-> "none"]

\* __next__ is called
Called(s) == [s EXCEPT !.ticks = @ + 1]

\* __next__ has come to the step named step
Ran(s, step) == [s EXCEPT !.steps = Append(@, step)]

(***************************************************************************)
(* The engine's update(): every character of active_characters with an     *)
(* active path is moved along it; a character whose path has ended has no  *)
(* active path and leaves active_characters.  How far an update moves a    *)
(* character depends on the path's speed.  The tree and the input text of  *)
(* Christmas move at fixed speeds: an update leaves such a character where *)
(* it is or at any later waypoint.  Snow moves at config.movement_speed    *)
(* times a random factor: in a run with slow snow it moves like that too,  *)
(* in a run with fast snow every update takes it to its next waypoint.     *)
(***************************************************************************)
HasActivePath(ch) == ch.path # <<>>

\* ch after reaching waypoint k of its path
AtWaypoint(ch, k) ==
    [ch EXCEPT !.coord = ch.path[k], !.path = SubSeq(ch.path, k + 1, Len(ch.path))]

\* where one update can leave a character that is ticked
AdvanceOptions(ch, lingers) ==
    IF ~HasActivePath(ch) THEN {ch}
    ELSE IF lingers THEN {ch} \cup { AtWaypoint(ch, k) : k \in 1..Len(ch.path) }
    ELSE {AtWaypoint(ch, 1)}

\* the lists an update can make of seq[1..n], ticking the positions in ticked
RECURSIVE AdvanceUpTo(_, _, _, _)
AdvanceUpTo(seq, ticked, lingers, n) ==
    IF n = 0 THEN {<<>>}
    ELSE { Append(pre, ch) :
             pre \in AdvanceUpTo(seq, ticked, lingers, n - 1),
             ch \in IF n \in ticked THEN AdvanceOptions(seq[n], lingers) ELSE {seq[n]} }

AdvanceAll(seq, ticked, lingers) == AdvanceUpTo(seq, ticked, lingers, Len(seq))

\* the states update() can leave
Update(s) ==
    LET tree_ticked == { i \in DOMAIN s.tree_chars : <<"tree", i>> \in s.active_characters }
        input_ticked == { i \in DOMAIN s.input_chars : <<"input", i>> \in s.active_characters }
        snow_ticked == { i \in DOMAIN s.background_snow :
                           <<"snow", s.background_snow[i].id>> \in s.active_characters }
    IN { [s EXCEPT
            !.tree_chars = tc, !.input_chars = ic, !.background_snow = bs,
            !.active_characters =
                { <<"tree", i>> : i \in { j \in tree_ticked : HasActivePath(tc[j]) } }
                \cup { <<"input", i>> : i \in { j \in input_ticked : HasActivePath(ic[j]) } }
                \cup { <<"snow", bs[i].id>> : i \in { j \in snow_ticked : HasActivePath(bs[j]) } } ] :
          tc \in AdvanceAll(s.tree_chars, tree_ticked, TRUE),
          ic \in AdvanceAll(s.input_chars, input_ticked, s.text_lingers),
          bs \in AdvanceAll(s.background_snow, snow_ticked, s.slow_snow) }

(***************************************************************************)
(* Christmas                                                               *)
(***************************************************************************)
\* the threshold of "if self.fadeout_counter > 600"
HoldThreshold == 600

RemoveId(snow_list, id) == SelectSeq(snow_list, LAMBDA p : p.id # id)

IndexOfId(snow_list, id) == CHOOSE i \in DOMAIN snow_list : snow_list[i].id = id

HeightAt(pile, column) == IF column \in DOMAIN pile THEN pile[column] ELSE 0

\* the pile test with the cap off by one
PileHasRoomOffByOne(height) == height <= 5

\* "if self.bottom_pile_height[landing_column] < 5" (Christmas)
ChristmasPileHasRoom(height) == height < 5

\* the landing check that goes on stacking after spawn stop
DiscardsLandedNever(s) == FALSE

\* "if self.spawn_stopped": landed snow is removed without stacking
DiscardsLanded(s) == s.spawn_stopped

\* one iteration of the loop of check_background_snow_landing, for snowflake id
ChristmasLandOne(s, id) ==
    LET i == IndexOfId(s.background_snow, id)
        snow == s.background_snow[i]
        landing_column == snow.coord.column
        height == HeightAt(s.bottom_pile_height, landing_column)
        stacked == Coord(landing_column, s.canvas.bottom - height)
        event == [id |-> id, column |-> landing_column, before |-> snow.coord]
    IN IF HasActivePath(snow) THEN s
       ELSE IF DiscardsLanded(s)
       THEN [s EXCEPT
               !.background_snow = RemoveId(@, id),
               !.landing_log = Append(@, event @@
                   [outcome |-> "removed", height |-> height, after |-> snow.coord,
                    hidden |-> TRUE, stopped |-> TRUE])]
       ELSE IF ChristmasPileHasRoom(height)
       THEN [s EXCEPT
               !.background_snow[i].coord = stacked,
               !.background_snow[i].stacks = @ + 1,
               !.bottom_pile_height = (landing_column :> (height + 1)) @@ @,
               !.landing_log = Append(@, event @@
                   [outcome |-> "stacked", height |-> height, after |-> stacked,
                    hidden |-> FALSE, stopped |-> FALSE])]
       ELSE [s EXCEPT
               !.background_snow = RemoveId(@, id),
               !.bottom_pile_height = (landing_column :> height) @@ @,
               !.landing_log = Append(@, event @@
                   [outcome |-> "removed", height |-> height, after |-> snow.coord,
                    hidden |-> TRUE, stopped |-> FALSE])]

\* "for snow in list(self.background_snow)": ids is the copied list
RECURSIVE ChristmasLandAll(_, _)
ChristmasLandAll(s, ids) ==
    IF ids = <<>> THEN s
    ELSE CHOOSE r \in { ChristmasLandAll(one, Tail(ids)) : one \in {ChristmasLandOne(s, Head(ids))} } : TRUE

ChristmasCheckLanding(s) ==
    ChristmasLandAll(s, [i \in DOMAIN s.background_snow |-> s.background_snow[i].id])

\* spawn_background_snowflake(speed_multiplier), for the column and the fall path
\* it draws; speed is the multiplier times 10
ChristmasSpawnSnowflake(s, speed, snow_col, fall_path) ==
    LET id == s.snow_created + 1
        snow == [ id |-> id, coord |-> Coord(snow_col, s.canvas.top), path |-> fall_path,
                  stacks |-> 0 ]
    IN [s EXCEPT
          !.snow_created = id,
          !.background_snow = Append(@, snow),
          !.active_characters = @ \cup {<<"snow", id>>},
          !.spawned = @ \cup {id},
          !.path_speeds = @ \cup {[id |-> id, by |-> "spawn", speed |-> speed]}]

\* the states one call of spawn_background_snowflake can leave
ChristmasSpawnOutcomes(s, speed) ==
    UNION { UNION { { ChristmasSpawnSnowflake(before, speed, snow_col, fall_path) :
                        fall_path \in BackgroundFallPaths(before.canvas, snow_col) } :
                    snow_col \in (before.canvas.left)..(before.canvas.right) } :
            before \in {s} }

\* ChristmasRelease that restarts the delay without releasing a character
ChristmasReleaseKeepsQueue(s, num) ==
    IF s.text_spawn_delay <= 0 THEN [s EXCEPT !.text_spawn_delay = 2]
    ELSE [s EXCEPT !.text_spawn_delay = @ - 1]

\* ChristmasRelease that pops from the back of the queue
ChristmasReleaseFromBack(s, num) ==
    IF s.text_spawn_delay <= 0
    THEN LET num_to_spawn == Min(num, Len(s.pending_chars))
             n == Len(s.pending_chars)
             popped == [k \in 1..num_to_spawn |-> s.pending_chars[n + 1 - k]]
         IN [s EXCEPT
               !.pending_chars = SubSeq(@, 1, n - num_to_spawn),
               !.active_characters = @ \cup { <<"tree", popped[k]>> : k \in DOMAIN popped },
               !.released = popped,
               !.text_spawn_delay = 2]
    ELSE [s EXCEPT !.text_spawn_delay = @ - 1]

\* "if self.pending_chars: ..." with num = random.randint(1, 2)
ChristmasRelease(s, num) ==
    IF s.text_spawn_delay <= 0
    THEN LET num_to_spawn == Min(num, Len(s.pending_chars))
             popped == SubSeq(s.pending_chars, 1, num_to_spawn)
         IN [s EXCEPT
               !.pending_chars = SubSeq(@, num_to_spawn + 1, Len(@)),
               !.active_characters = @ \cup { <<"tree", popped[k]>> : k \in DOMAIN popped },
               !.released = popped,
               !.text_spawn_delay = 2]
    ELSE [s EXCEPT !.text_spawn_delay = @ - 1]

\* all_settled that looks at the first tree character only
AllSettledFirstOnly(s) == s.tree_chars = <<>> \/ ~HasActivePath(s.tree_chars[1])

\* all_settled: no tree character has an active path
AllSettled(s) == \A i \in DOMAIN s.tree_chars : ~HasActivePath(s.tree_chars[i])

\* the lights in the order of tree_chars, unsorted
CollectLightsUnsorted(s) ==
    LET tree == TreeChars(s.canvas)
    IN SelectSeq([i \in DOMAIN s.tree_chars |-> i], LAMBDA i : tree[i].should_pop)

\* the lights, sorted by the row they rest at
CollectLights(s) ==
    LET tree == TreeChars(s.canvas)
        lights == SelectSeq([i \in DOMAIN s.tree_chars |-> i], LAMBDA i : tree[i].should_pop)
    IN SortByKey(lights, [i \in DOMAIN s.tree_chars |-> s.tree_chars[i].coord.row])

\* "elif not self.text_complete: ..."
ChristmasSettle(s) ==
    IF AllSettled(s)
    THEN [s EXCEPT !.text_complete = TRUE, !.lights_to_activate = CollectLights(s)]
    ELSE s

\* the first if/elif of __next__
ChristmasBuildStep(s, num) ==
    IF s.pending_chars # <<>> THEN ChristmasRelease(s, num)
    ELSE IF ~s.text_complete THEN ChristmasSettle(s)
    ELSE s

\* the lights step with a delay of 2 between activations
ChristmasLightsShortDelay(s) ==
    IF s.text_complete /\ s.lights_to_activate # <<>>
    THEN IF s.light_delay <= 0
         THEN [s EXCEPT
                 !.lit = Append(@, Head(s.lights_to_activate)),
                 !.lights_to_activate = Tail(@),
                 !.light_delay = 2]
         ELSE [s EXCEPT !.light_delay = @ - 1]
    ELSE s

\* "Light up baubles one by one"
ChristmasLights(s) ==
    IF s.text_complete /\ s.lights_to_activate # <<>>
    THEN IF s.light_delay <= 0
         THEN [s EXCEPT
                 !.lit = Append(@, Head(s.lights_to_activate)),
                 !.lights_to_activate = Tail(@),
                 !.light_delay = 3]
         ELSE [s EXCEPT !.light_delay = @ - 1]
    ELSE s

\* a reveal that does not wait for the highlight queue to empty
ChristmasRevealEarly(s) ==
    IF s.text_complete /\ ~s.input_chars_revealed
    THEN [s EXCEPT
            !.input_chars_revealed = TRUE,
            !.active_characters = @ \cup { <<"input", i>> : i \in DOMAIN s.input_chars }]
    ELSE s

\* "Reveal input text after lights are done"
ChristmasReveal(s) ==
    IF s.text_complete /\ s.lights_to_activate = <<>> /\ ~s.input_chars_revealed
    THEN [s EXCEPT
            !.input_chars_revealed = TRUE,
            !.active_characters = @ \cup { <<"input", i>> : i \in DOMAIN s.input_chars }]
    ELSE s

\* an acceleration that leaves the path of a snowflake in flight as it is
AcceleratedKeepsPath(s, snow) == snow

\* "faster_speed = self.config.movement_speed * 2.5", in tenths
faster_speed == 25

\* the paths the acceleration creates: one for each snowflake in flight
AcceleratedPaths(s) ==
    { [id |-> s.background_snow[i].id, by |-> "accelerate", speed |-> faster_speed] :
        i \in { j \in DOMAIN s.background_snow : HasActivePath(s.background_snow[j]) } }

\* the new path of a snowflake that is in flight; speed is 2.5 times the base speed
Accelerated(s, snow) ==
    IF HasActivePath(snow)
    THEN [snow EXCEPT !.path = <<Coord(snow.coord.column, s.canvas.bottom)>>]
    ELSE snow

\* an acceleration that does not wait for the reveal
ChristmasAccelerateUnrevealed(s) ==
    IF ~s.snow_accelerated
       /\ \A i \in DOMAIN s.input_chars : ~HasActivePath(s.input_chars[i])
    THEN [s EXCEPT
            !.snow_accelerated = TRUE,
            !.background_snow = [i \in DOMAIN @ |-> Accelerated(s, @[i])],
            !.path_speeds = @ \cup AcceleratedPaths(s)]
    ELSE s

\* "Accelerate snow when omarchy animation completes"
ChristmasAccelerate(s) ==
    IF s.input_chars_revealed /\ ~s.snow_accelerated
       /\ \A i \in DOMAIN s.input_chars : ~HasActivePath(s.input_chars[i])
    THEN [s EXCEPT
            !.snow_accelerated = TRUE,
            !.background_snow = [i \in DOMAIN @ |-> Accelerated(s, @[i])],
            !.path_speeds = @ \cup AcceleratedPaths(s)]
    ELSE s

\* the state the acceleration step of a call finds: the call has run its build,
\* lights and reveal steps
BeforeAccelerate(s, num) ==
    ChristmasReveal(ChristmasLights(ChristmasBuildStep(Ran(s, "drain"), num)))

\* the timed spawn that resets the timer only when the draw spawns a snowflake
ChristmasTimedSpawnResetOnSpawn(s, speed) ==
    IF s.background_spawn_delay <= 0
    THEN {s}
         \cup (IF s.snow_created < s.snow_budget
               THEN { [o EXCEPT !.background_spawn_delay = 3] :
                        o \in ChristmasSpawnOutcomes(s, speed) }
               ELSE {})
    ELSE { [s EXCEPT !.background_spawn_delay = @ - 1] }

\* "if self.background_spawn_delay <= 0: ..." ; one random.random() is drawn;
\* no snowflake is created once snow_budget have been
ChristmasTimedSpawn(s, speed) ==
    IF s.background_spawn_delay <= 0
    THEN { [s EXCEPT !.background_spawn_delay = 3] }
         \cup (IF s.snow_created < s.snow_budget
               THEN { [o EXCEPT !.background_spawn_delay = 3] :
                        o \in ChristmasSpawnOutcomes(s, speed) }
               ELSE {})
    ELSE { [s EXCEPT !.background_spawn_delay = @ - 1] }

\* ticks since the last one that created a snowflake
CountSinceSpawn(s) ==
    [s EXCEPT !.since_spawn = IF s.spawned # {} THEN 0 ELSE Min(3, @ + 1)]

\* ticks since the first tick that incremented fadeout_counter, that tick included
CountHoldTick(s, incremented) ==
    IF s.hold_ticks > 0 THEN Min(s.hold_ticks + 1, HoldThreshold + 2)
    ELSE IF incremented THEN 1 ELSE 0

\* the hold test one tick early
HoldOverOffByOne(counter) == counter >= HoldThreshold

\* "if self.fadeout_counter > 600"
HoldOver(counter) == counter > HoldThreshold

\* the spawn step that still runs the timed spawn in the tick that stops spawning
ChristmasSpawnStepSpawnsAtStop(s) ==
    IF s.spawn_stopped THEN { [s EXCEPT !.hold_ticks = CountHoldTick(s, FALSE)] }
    ELSE IF s.text_complete
    THEN LET c == [s EXCEPT !.fadeout_counter = @ + 1,
                            !.hold_ticks = CountHoldTick(s, TRUE)]
         IN IF HoldOver(c.fadeout_counter)
            THEN ChristmasTimedSpawn([c EXCEPT !.spawn_stopped = TRUE], 20)
            ELSE ChristmasTimedSpawn(c, IF c.input_chars_revealed THEN 20 ELSE 10)
    ELSE ChristmasTimedSpawn([s EXCEPT !.hold_ticks = CountHoldTick(s, FALSE)], 10)

\* the spawn step with a counter that grows by 2
ChristmasSpawnStepCountsTwice(s) ==
    IF s.spawn_stopped THEN { [s EXCEPT !.hold_ticks = CountHoldTick(s, FALSE)] }
    ELSE IF s.text_complete
    THEN LET c == [s EXCEPT !.fadeout_counter = @ + 2,
                            !.hold_ticks = CountHoldTick(s, TRUE)]
         IN IF HoldOver(c.fadeout_counter)
            THEN { [c EXCEPT !.spawn_stopped = TRUE] }
            ELSE ChristmasTimedSpawn(c, IF c.input_chars_revealed THEN 20 ELSE 10)
    ELSE ChristmasTimedSpawn([s EXCEPT !.hold_ticks = CountHoldTick(s, FALSE)], 10)

\* the spawn step that never doubles the speed of new snow
ChristmasSpawnStepOneSpeed(s) ==
    IF s.spawn_stopped THEN { [s EXCEPT !.hold_ticks = CountHoldTick(s, FALSE)] }
    ELSE IF s.text_complete
    THEN LET c == [s EXCEPT !.fadeout_counter = @ + 1,
                            !.hold_ticks = CountHoldTick(s, TRUE)]
         IN IF HoldOver(c.fadeout_counter)
            THEN { [c EXCEPT !.spawn_stopped = TRUE] }
            ELSE ChristmasTimedSpawn(c, 10)
    ELSE ChristmasTimedSpawn([s EXCEPT !.hold_ticks = CountHoldTick(s, FALSE)], 10)

\* "Spawn background snowflakes - gentle continuous snow"
ChristmasSpawnStep(s) ==
    IF s.spawn_stopped THEN { [s EXCEPT !.hold_ticks = CountHoldTick(s, FALSE)] }
    ELSE IF s.text_complete
    THEN LET c == [s EXCEPT !.fadeout_counter = @ + 1,
                            !.hold_ticks = CountHoldTick(s, TRUE)]
         IN IF HoldOver(c.fadeout_counter)
            THEN { [c EXCEPT !.spawn_stopped = TRUE] }
            ELSE ChristmasTimedSpawn(c, IF c.input_chars_revealed THEN 20 ELSE 10)
    ELSE ChristmasTimedSpawn([s EXCEPT !.hold_ticks = CountHoldTick(s, FALSE)], 10)

\* the end test without the test of background_snow
ChristmasEndsIgnoringSnow(s) == s.spawn_stopped

\* "End when spawning stopped and all background snow is gone"
ChristmasEnds(s) == s.spawn_stopped /\ Len(s.background_snow) = 0

\* the end of __next__: StopIteration, or update() and a frame
ChristmasFinish(s) ==
    IF ChristmasEnds(s) THEN { [s EXCEPT !.stopped = TRUE] }
    ELSE Update(s)

\* one call of __next__, step by step: build, lights, reveal, acceleration,
\* spawn, landing check, end test and update
ChristmasTick ==
    /\ variant = "Christmas"
    /\ ~stopped
    /\ hold_ticks < horizon
    /\ \E num \in 1..2 :
       \E built \in {ChristmasBuildStep(Ran(State, "drain"), num)} :
       \E lights \in {ChristmasLights(built)} :
       \E revealed \in {ChristmasReveal(lights)} :
       \E accelerated \in {ChristmasAccelerate(revealed)} :
       \E ready \in {Ran(accelerated, "spawn")} :
       \E sp \in ChristmasSpawnStep(ready) :
       \E landed \in {ChristmasCheckLanding(Ran(CountSinceSpawn(sp), "landing"))} :
       \E s \in ChristmasFinish(Ran(landed, "end")) : Becomes(s)
    /\ UNCHANGED <<variant, gen, slow_snow, snow_budget, horizon>>

\* ChristmasIterator.__init__ and build, for an input text of k characters
ChristmasInit(cv, k) ==
    LET tree == TreeChars(cv)
        text == InputText(cv, k, cv.right - cv.left + 1)
        terminal_width == cv.right - cv.left + 1
        center_col == cv.left + (terminal_width \div 2)
    IN /\ canvas = cv
       /\ tree_chars = [ i \in DOMAIN tree |->
                           [ coord |-> Coord(tree[i].final.column, cv.top),
                             path |-> <<tree[i].final>> ] ]
       /\ pending_chars = SortByKey([i \in DOMAIN tree |-> i],
                                    [i \in DOMAIN tree |-> tree[i].final.row])
       /\ input_chars = [ j \in DOMAIN text |->
                            [ input_coord |-> text[j],
                              coord |-> Coord(IF text[j].column < center_col
                                              THEN cv.left - 5 ELSE cv.right + 5,
                                              text[j].row),
                              path |-> <<text[j]>> ] ]
       /\ active_characters = {}
       /\ background_snow = <<>>
       /\ bottom_pile_height = <<>>
       /\ text_spawn_delay = 0
       /\ background_spawn_delay = 0
       /\ text_complete = FALSE
       /\ fadeout_counter = 0
       /\ spawn_stopped = FALSE
       /\ lights_to_activate = <<>>
       /\ light_delay = 0
       /\ input_chars_revealed = FALSE
       /\ snow_accelerated = FALSE
       /\ lit = <<>>
       /\ snow_created = 0
       /\ elapsed = 0
       /\ stopped = FALSE
       /\ released = <<>>
       /\ spawned = {}
       /\ path_speeds = {}
       /\ landing_log = <<>>
       /\ steps = <<>>
       /\ ticks = 0
       /\ batch_ticks = <<>>
       /\ since_spawn = 3
       /\ hold_ticks = 0
       /\ gen = NoPath

\* Christmas runs, followed MaxHoldTicks ticks into the hold phase
InitChristmas ==
    /\ variant = "Christmas"
    /\ \E cv \in {WideCanvas, NarrowCanvas}, k \in 0..MaxText :
         /\ ChristmasInit(cv, k)
         /\ snow_budget = SnowBudget(cv)
    /\ slow_snow \in BOOLEAN
    /\ horizon = MaxHoldTicks

\* Christmas runs without background snow (every random draw of the spawn step
\* fails), followed to their end
InitChristmasText ==
    /\ variant = "Christmas"
    /\ \E cv \in {WideCanvas, NarrowCanvas}, k \in 0..MaxText : ChristmasInit(cv, k)
    /\ snow_budget = 0
    /\ slow_snow = FALSE
    /\ horizon = HoldThreshold + 3

\* Christmas runs with an empty input text and fast snow, followed to their end,
\* that may create MaxSpawnSnow snowflakes
InitChristmasSpawn ==
    /\ variant = "Christmas"
    /\ ChristmasInit(NarrowCanvas, 0)
    /\ snow_budget = MaxSpawnSnow
    /\ slow_snow = FALSE
    /\ horizon = HoldThreshold + 3

\* Christmas runs with an empty input text, followed to their end
InitChristmasHold ==
    /\ variant = "Christmas"
    /\ ChristmasInit(NarrowCanvas, 0)
    /\ snow_budget = MaxHoldSnow
    /\ slow_snow \in BOOLEAN
    /\ horizon = HoldThreshold + 3

\* Christmas runs with an empty input text and slow snow, followed to their
\* end, that may create one snowflake
InitChristmasLive ==
    /\ variant = "Christmas"
    /\ ChristmasInit(NarrowCanvas, 0)
    /\ snow_budget = Min(MaxHoldSnow, 1)
    /\ slow_snow = TRUE
    /\ horizon = HoldThreshold + 3

NextChristmas == ChristmasTick

SpecChristmas == InitChristmas /\ [][NextChristmas]_vars

\* the caller keeps calling __next__ until it raises StopIteration
SpecChristmasLive == InitChristmasLive /\ [][NextChristmas]_vars /\ WF_vars(ChristmasTick)

SpecChristmasText == InitChristmasText /\ [][NextChristmas]_vars

SpecChristmasSpawn == InitChristmasSpawn /\ [][NextChristmas]_vars

SpecChristmasHold == InitChristmasHold /\ [][NextChristmas]_vars

(***************************************************************************)
(* MoreSnow                                                                *)
(***************************************************************************)
\* "if time.time() - self.start_time >= 10.0"
TimeLimit == 10

\* seq without its element at position i: list.pop(i)
PopAt(seq, i) == SubSeq(seq, 1, i - 1) \o SubSeq(seq, i + 1, Len(seq))

\* "if self.bottom_pile_height[landing_column] < 5" (MoreSnow)
MoreSnowPileHasRoom(height) == height < 5

\* one iteration of the loop of check_background_snow_landing, for snowflake id
MoreSnowLandOne(s, id) ==
    LET i == IndexOfId(s.background_snow, id)
        snow == s.background_snow[i]
        landing_column == snow.coord.column
        height == HeightAt(s.bottom_pile_height, landing_column)
        stacked == Coord(landing_column, s.canvas.bottom + height)
        event == [id |-> id, column |-> landing_column, before |-> snow.coord,
                  height |-> height, stopped |-> FALSE]
    IN IF HasActivePath(snow) THEN s
       ELSE IF MoreSnowPileHasRoom(height)
       THEN [s EXCEPT
               !.background_snow[i].coord = stacked,
               !.background_snow[i].stacks = @ + 1,
               !.bottom_pile_height = (landing_column :> (height + 1)) @@ @,
               !.landing_log = Append(@, event @@
                   [outcome |-> "stacked", after |-> stacked, hidden |-> FALSE])]
       ELSE [s EXCEPT
               !.background_snow = RemoveId(@, id),
               !.bottom_pile_height = (landing_column :> height) @@ @,
               !.landing_log = Append(@, event @@
                   [outcome |-> "removed", after |-> snow.coord, hidden |-> TRUE])]

RECURSIVE MoreSnowLandAll(_, _)
MoreSnowLandAll(s, ids) ==
    IF ids = <<>> THEN s
    ELSE CHOOSE r \in { MoreSnowLandAll(one, Tail(ids)) : one \in {MoreSnowLandOne(s, Head(ids))} } : TRUE

MoreSnowCheckLanding(s) ==
    MoreSnowLandAll(s, [i \in DOMAIN s.background_snow |-> s.background_snow[i].id])

\* a spawn that does not activate the fall path
MoreSnowSpawnSnowflakeNoPath(s, snow_col, fall_path) ==
    LET id == s.snow_created + 1
        snow == [ id |-> id, coord |-> Coord(snow_col, s.canvas.top), path |-> <<>>,
                  stacks |-> 0 ]
    IN [s EXCEPT
          !.snow_created = id,
          !.background_snow = Append(@, snow),
          !.active_characters = @ \cup {<<"snow", id>>},
          !.spawned = @ \cup {id}]

\* spawn_background_snowflake, for the column and the fall path it draws
MoreSnowSpawnSnowflake(s, snow_col, fall_path) ==
    LET id == s.snow_created + 1
        snow == [ id |-> id, coord |-> Coord(snow_col, s.canvas.top), path |-> fall_path,
                  stacks |-> 0 ]
    IN [s EXCEPT
          !.snow_created = id,
          !.background_snow = Append(@, snow),
          !.active_characters = @ \cup {<<"snow", id>>},
          !.spawned = @ \cup {id}]

\* the states count calls of spawn_background_snowflake can leave
RECURSIVE MoreSnowSpawnBatch(_, _)
MoreSnowSpawnBatch(s, count) ==
    IF count = 0 THEN {s}
    ELSE UNION { UNION { { MoreSnowSpawnSnowflake(b, snow_col, fall_path) :
                             fall_path \in BackgroundFallPaths(s.canvas, snow_col) } :
                         snow_col \in (s.canvas.left)..(s.canvas.right) } :
                 b \in MoreSnowSpawnBatch(s, count - 1) }

\* the batch sizes random.randint(3, 6) that snow_budget leaves room for
BatchSizes(s) == { n \in 3..6 : s.snow_created + n <= s.snow_budget }

\* the spawn step with the timer reset to 1
MoreSnowSpawnStepShortTimer(s) ==
    IF s.background_spawn_delay <= 0
    THEN UNION { { [b EXCEPT !.background_spawn_delay = 1,
                             !.batch_ticks = Append(@, s.ticks)] :
                     b \in MoreSnowSpawnBatch(s, n) } : n \in BatchSizes(s) }
    ELSE { [s EXCEPT !.background_spawn_delay = @ - 1] }

\* the spawn step with the timer reset to 3
MoreSnowSpawnStepLongTimer(s) ==
    IF s.background_spawn_delay <= 0
    THEN UNION { { [b EXCEPT !.background_spawn_delay = 3,
                             !.batch_ticks = Append(@, s.ticks)] :
                     b \in MoreSnowSpawnBatch(s, n) } : n \in BatchSizes(s) }
    ELSE { [s EXCEPT !.background_spawn_delay = @ - 1] }

\* "Spawn background snowflakes continuously"
MoreSnowSpawnStep(s) ==
    IF s.background_spawn_delay <= 0
    THEN UNION { { [b EXCEPT !.background_spawn_delay = 2,
                             !.batch_ticks = Append(@, s.ticks)] :
                     b \in MoreSnowSpawnBatch(s, n) } : n \in BatchSizes(s) }
    ELSE { [s EXCEPT !.background_spawn_delay = @ - 1] }

\* "Spawn text-forming snow more slowly": pop(random.randint(0, len - 1))
MoreSnowRelease(s) ==
    IF s.pending_chars = <<>> THEN {s}
    ELSE IF s.text_spawn_delay <= 0
    THEN { [s EXCEPT
              !.pending_chars = PopAt(@, i),
              !.active_characters = @ \cup {<<"input", s.pending_chars[i]>>},
              !.released = <<s.pending_chars[i]>>,
              !.text_spawn_delay = 1] : i \in DOMAIN s.pending_chars }
    ELSE { [s EXCEPT !.text_spawn_delay = @ - 1] }

\* the time that has passed at this tick: not less than at the last one
MoreSnowClock(s) ==
    { [s EXCEPT !.elapsed = Min(TimeLimit, @ + dt)] : dt \in {0, MaxTimeStep} }

\* the end test that waits for the pending queue
MoreSnowEndsWhenDrained(s) == s.elapsed >= TimeLimit /\ s.pending_chars = <<>>

\* "if time.time() - self.start_time >= 10.0"
MoreSnowEnds(s) == s.elapsed >= TimeLimit

\* the end of __next__: StopIteration, or update() and a frame
MoreSnowFinish(s) ==
    IF MoreSnowEnds(s) THEN { [s EXCEPT !.stopped = TRUE] }
    ELSE Update(s)

\* __next__ with the release of text snow moved to the front
MoreSnowNextStatesDrainFirst(s) ==
    UNION { UNION { UNION { MoreSnowFinish(c) :
                              c \in MoreSnowClock(
                                      Ran(MoreSnowCheckLanding(Ran(sp, "landing")), "end")) } :
                    sp \in MoreSnowSpawnStep(Ran(r, "spawn")) } :
            r \in MoreSnowRelease(Ran(s, "drain")) }

\* the states one call of __next__ can leave
MoreSnowNextStates(s) ==
    UNION { UNION { UNION { MoreSnowFinish(c) : c \in MoreSnowClock(Ran(r, "end")) } :
                    r \in MoreSnowRelease(
                            Ran(MoreSnowCheckLanding(Ran(sp, "landing")), "drain")) } :
            sp \in MoreSnowSpawnStep(Ran(s, "spawn")) }

\* the tick is followed while snow_budget has room for the batch it spawns
MoreSnowTick ==
    /\ variant = "MoreSnow"
    /\ ~stopped
    /\ background_spawn_delay <= 0 => BatchSizes(State) # {}
    /\ \E s \in MoreSnowNextStates(Called(State)) : Becomes(s)
    /\ UNCHANGED <<variant, gen, slow_snow, snow_budget, horizon>>

\* the fall paths build can give the characters of text
RECURSIVE TextPaths(_, _, _)
TextPaths(cv, text, n) ==
    IF n = 0 THEN {<<>>}
    ELSE { Append(pre, [ input_coord |-> text[n],
                         coord |-> Coord(text[n].column, cv.top),
                         path |-> fall_path ]) :
             pre \in TextPaths(cv, text, n - 1),
             fall_path \in UNION { { TextFallPath(cv, text[n], num_sways, amounts) :
                                       amounts \in SwayAmounts(num_sways) } :
                                   num_sways \in NumSways } }

\* pending_chars.sort(key=lambda c: c.input_coord.row, reverse=True);
\* reverse=True keeps the order of equal rows
SortByRowReverse(chars) ==
    SortByKey([i \in DOMAIN chars |-> i], [i \in DOMAIN chars |-> 0 - chars[i].input_coord.row])

\* the fields Snow and MoreSnow do not have stay as Christmas initialises them
TextInit(cv, k, w) ==
    /\ canvas = cv
    /\ input_chars \in TextPaths(cv, InputText(cv, k, w), k)
    /\ pending_chars = SortByRowReverse(input_chars)
    /\ tree_chars = <<>>
    /\ active_characters = {}
    /\ background_snow = <<>>
    /\ bottom_pile_height = <<>>
    /\ text_spawn_delay = 0
    /\ background_spawn_delay = 0
    /\ text_complete = FALSE
    /\ fadeout_counter = 0
    /\ spawn_stopped = FALSE
    /\ lights_to_activate = <<>>
    /\ light_delay = 0
    /\ input_chars_revealed = FALSE
    /\ snow_accelerated = FALSE
    /\ lit = <<>>
    /\ snow_created = 0
    /\ elapsed = 0
    /\ stopped = FALSE
    /\ released = <<>>
    /\ spawned = {}
    /\ path_speeds = {}
    /\ landing_log = <<>>
    /\ steps = <<>>
    /\ ticks = 0
    /\ batch_ticks = <<>>
    /\ since_spawn = 3
    /\ hold_ticks = 0
    /\ gen = NoPath
    /\ horizon = 0

\* snowflakes a MoreSnow run with k text characters may create: with text, one
\* batch of the smallest size
MoreSnowBudget(k) == IF k = 0 THEN MaxMoreSnow ELSE Min(MaxMoreSnow, 3)

\* MoreSnowIterator.__init__ and build
InitMoreSnow ==
    /\ variant = "MoreSnow"
    /\ \E k \in 0..MaxSnowText :
         \E w \in LineWidths(NarrowCanvas, k) :
           /\ TextInit(NarrowCanvas, k, w)
           /\ snow_budget = MoreSnowBudget(k)
    /\ slow_snow = FALSE

NextMoreSnow == MoreSnowTick

SpecMoreSnow == InitMoreSnow /\ [][NextMoreSnow]_vars

(***************************************************************************)
(* Snow                                                                    *)
(***************************************************************************)
\* "for _ in range(random.randint(1, 3))": count characters popped at random
RECURSIVE SnowRelease(_, _)
SnowRelease(s, count) ==
    IF count = 0 \/ s.pending_chars = <<>> THEN {s}
    ELSE UNION { SnowRelease([s EXCEPT
                                !.pending_chars = PopAt(@, i),
                                !.active_characters = @ \cup {<<"input", s.pending_chars[i]>>},
                                !.released = Append(@, s.pending_chars[i])],
                             count - 1) :
                 i \in DOMAIN s.pending_chars }

\* the end test that looks at the pending queue only
SnowEndsPendingOnly(s) == s.pending_chars = <<>>

\* not "if self.pending_chars or self.active_characters"
SnowEnds(s) == s.pending_chars = <<>> /\ s.active_characters = {}

\* the states one call of __next__ can leave
SnowNextStates(s) ==
    IF SnowEnds(s) THEN { [s EXCEPT !.stopped = TRUE] }
    ELSE UNION { UNION { Update(r) : r \in SnowRelease(s, count) } : count \in 1..3 }

SnowTick ==
    /\ variant = "Snow"
    /\ ~stopped
    /\ \E s \in SnowNextStates(State) : Becomes(s)
    /\ UNCHANGED <<variant, gen, slow_snow, snow_budget, horizon>>

\* SnowIterator.__init__ and build
InitSnow ==
    /\ variant = "Snow"
    /\ slow_snow \in BOOLEAN
    /\ \E k \in 0..(IF slow_snow THEN MaxText ELSE MaxSnowText) :
         \E w \in LineWidths(WideCanvas, k) : TextInit(WideCanvas, k, w)
    /\ snow_budget = 0

NextSnow == SnowTick

SpecSnow == InitSnow /\ [][NextSnow]_vars

(***************************************************************************)
(* The three effects                                                       *)
(***************************************************************************)
Init == InitChristmas \/ InitMoreSnow \/ InitSnow

Next == ChristmasTick \/ MoreSnowTick \/ SnowTick

Spec == Init /\ [][Next]_vars

(***************************************************************************)
(* The fall path generator on its own: every canvas of Canvases, every     *)
(* start, every sway count and every choice of sway amounts.               *)
(***************************************************************************)
\* the fall path of spawn_background_snowflake for a snowflake of column snow_col
GenerateBackgroundPath ==
    /\ variant = "Path"
    /\ gen = NoPath
    /\ \E cv \in Canvases :
         \E snow_col \in (cv.left)..(cv.right), num_sways \in NumSways :
           \E amounts \in SwayAmounts(num_sways) :
             gen' = [ kind |-> "background", canvas |-> cv,
                      start |-> Coord(snow_col, cv.top),
                      num_sways |-> num_sways, amounts |-> amounts,
                      path |-> BackgroundFallPath(cv, snow_col, num_sways, amounts) ]
    /\ UNCHANGED << variant, canvas, pending_chars, tree_chars, input_chars,
                    active_characters, background_snow, bottom_pile_height,
                    text_spawn_delay, background_spawn_delay, text_complete,
                    fadeout_counter, spawn_stopped, lights_to_activate, light_delay,
                    input_chars_revealed, snow_accelerated, lit, snow_created, elapsed,
                    stopped, released, spawned, path_speeds, landing_log, hold_ticks, steps, ticks,
                    batch_ticks,
                    since_spawn, slow_snow,
                    snow_budget, horizon >>

\* the fall path of build (Snow, MoreSnow) for a character of the input text
GenerateTextPath ==
    /\ variant = "Path"
    /\ gen = NoPath
    /\ \E cv \in Canvases :
         \E column \in (cv.left)..(cv.right), row \in (cv.bottom)..(cv.top),
            num_sways \in NumSways :
           \E amounts \in SwayAmounts(num_sways) :
             gen' = [ kind |-> "text", canvas |-> cv,
                      start |-> Coord(column, row),
                      num_sways |-> num_sways, amounts |-> amounts,
                      path |-> TextFallPath(cv, Coord(column, row), num_sways, amounts) ]
    /\ UNCHANGED << variant, canvas, pending_chars, tree_chars, input_chars,
                    active_characters, background_snow, bottom_pile_height,
                    text_spawn_delay, background_spawn_delay, text_complete,
                    fadeout_counter, spawn_stopped, lights_to_activate, light_delay,
                    input_chars_revealed, snow_accelerated, lit, snow_created, elapsed,
                    stopped, released, spawned, path_speeds, landing_log, hold_ticks, steps, ticks,
                    batch_ticks,
                    since_spawn, slow_snow,
                    snow_budget, horizon >>

InitPath ==
    /\ variant = "Path"
    /\ TextInit(NarrowCanvas, 0, 1)
    /\ snow_budget = 0
    /\ slow_snow = FALSE

NextPath == GenerateBackgroundPath \/ GenerateTextPath

SpecPath == InitPath /\ [][NextPath]_vars

(***************************************************************************)
(* Properties                                                              *)
(***************************************************************************)
Stacking == variant \in {"Christmas", "MoreSnow"}

SnowIds == { background_snow[i].id : i \in DOMAIN background_snow }

LogEvents == { landing_log[i] : i \in DOMAIN landing_log }

\* C1: in Christmas before spawn stop, a snowflake that the landing check has
\* stacked rests on one of the rows base .. base-4 of its column, is kept in
\* background_snow and is at the same row after every later tick
C1_StackedSnowStays ==
    [][ (variant = "Christmas" /\ ~spawn_stopped')
        => \A i \in DOMAIN background_snow :
             background_snow[i].stacks >= 1
             => /\ background_snow[i].coord.row \in (canvas.bottom - 4)..(canvas.bottom)
                /\ \E j \in DOMAIN background_snow' :
                     /\ background_snow'[j].id = background_snow[i].id
                     /\ background_snow'[j].coord = background_snow[i].coord ]_vars

\* C2: every recorded column height is between 0 and 5, and no tick lowers the
\* height of a column or drops a column from bottom_pile_height
C2_PileHeightBoundedMonotone ==
    /\ [](\A c \in DOMAIN bottom_pile_height :
            bottom_pile_height[c] >= 0 /\ bottom_pile_height[c] <= 5)
    /\ [][ \A c \in DOMAIN bottom_pile_height :
             c \in DOMAIN bottom_pile_height'
             /\ bottom_pile_height'[c] >= bottom_pile_height[c] ]_vars

C2_Witness ==
    /\ variant = "MoreSnow"
    /\ \E c \in DOMAIN bottom_pile_height : bottom_pile_height[c] = 5

\* C3: a snowflake the landing check finds at rest in a column of height 5
\* (Christmas: before spawn stop) is hidden and removed from background_snow,
\* it is not moved, and the column's height stays 5
C3_FullColumnDiscards ==
    Stacking =>
      \A e \in LogEvents :
        (e.height = 5 /\ ~e.stopped)
        => /\ e.outcome = "removed"
           /\ e.hidden
           /\ e.after = e.before
           /\ e.id \notin SnowIds
           /\ e.column \in DOMAIN bottom_pile_height
           /\ bottom_pile_height[e.column] = 5

C3_Witness ==
    /\ variant = "Christmas"
    /\ \E e \in LogEvents : e.height = 5 /\ ~e.stopped /\ e.outcome = "removed"

\* C4: a snowflake is stacked at most once, and (Christmas: before spawn stop)
\* the height of a column is the number of stacked snowflakes of background_snow
\* that rest in it
C4_HeightCountsStackedSnow ==
    (Stacking /\ ~spawn_stopped) =>
      /\ \A i \in DOMAIN background_snow : background_snow[i].stacks <= 1
      /\ \A c \in DOMAIN bottom_pile_height :
           bottom_pile_height[c] =
             Cardinality({ i \in DOMAIN background_snow :
                             /\ background_snow[i].stacks >= 1
                             /\ background_snow[i].coord.column = c })

\* the sum of the sways: those of even index go right, those of odd index left
RECURSIVE SumAt(_, _)
SumAt(amounts, indices) ==
    IF indices = {} THEN 0
    ELSE LET i == CHOOSE j \in indices : TRUE
         IN amounts[i] + SumAt(amounts, indices \ {i})

SwayedColumn(start_column, amounts) ==
    start_column
    + SumAt(amounts, { i \in DOMAIN amounts : i % 2 = 0 })
    - SumAt(amounts, { i \in DOMAIN amounts : i % 2 = 1 })

Clamped(cv, column) ==
    IF column < cv.left THEN cv.left ELSE IF column > cv.right THEN cv.right ELSE column

\* C5: a fall path ends with a waypoint at its target: (the clamped final swayed
\* column, the bottom row) for background snow, the input coordinate for text
\* snow; the columns of the waypoints before it lie within the canvas
C5_PathEndsAtTarget ==
    gen # NoPath =>
      LET path == gen.path
          cv == gen.canvas
      IN /\ Len(path) >= 1
         /\ gen.kind = "background"
            => path[Len(path)] =
                 Coord(Clamped(cv, SwayedColumn(gen.start.column, gen.amounts)), cv.bottom)
         /\ gen.kind = "text" => path[Len(path)] = gen.start
         /\ \A i \in 1..(Len(path) - 1) :
              path[i].column >= cv.left /\ path[i].column <= cv.right

C5_Witness ==
    /\ gen # NoPath
    /\ gen.kind = "background"
    /\ SwayedColumn(gen.start.column, gen.amounts) < gen.canvas.left
    /\ gen.path[Len(gen.path)].column = gen.canvas.left

\* C6: a path of sway count n has n-1 sway waypoints and one final waypoint;
\* n is drawn from 2..4, so a path has 1 to 3 sway waypoints and 2 to 4
\* waypoints; with n = 1 the path would be the final waypoint alone
C6_WaypointCount ==
    /\ gen # NoPath =>
         /\ gen.num_sways \in 2..4
         /\ Len(gen.path) = gen.num_sways
         /\ Len(gen.path) - 1 >= 1 /\ Len(gen.path) - 1 <= 3
         /\ Len(gen.amounts) = Len(gen.path) - 1
    /\ BackgroundFallPath(NarrowCanvas, 1, 1, <<>>) = <<Coord(1, 1)>>
    /\ TextFallPath(NarrowCanvas, Coord(1, 2), 1, <<>>) = <<Coord(1, 2)>>

C6_Witness == gen # NoPath /\ gen.kind = "background" /\ gen.num_sways = 3 /\ Len(gen.path) = 3

\* C7 as stated: every tick that starts with a non-empty pending queue leaves it
\* strictly shorter
C7_EveryTickShrinksQueue ==
    [][ pending_chars # <<>> => Len(pending_chars') < Len(pending_chars) ]_vars

\* C7 as amended: a tick that starts with a non-empty queue shortens it when it
\* is a tick of Snow or starts with text_spawn_delay <= 0; otherwise it leaves
\* the queue as it is and lowers text_spawn_delay, which is at most 2, by 1
C7_QueueShrinksWhenDelayOver ==
    /\ [](text_spawn_delay >= 0 /\ text_spawn_delay <= 2)
    /\ [][ pending_chars # <<>>
           => IF variant = "Snow" \/ text_spawn_delay <= 0
              THEN Len(pending_chars') < Len(pending_chars)
              ELSE /\ pending_chars' = pending_chars
                   /\ text_spawn_delay' = text_spawn_delay - 1 ]_vars

C7_Witness ==
    /\ variant = "Christmas"
    /\ pending_chars # <<>>
    /\ released # <<>>
    /\ text_spawn_delay = 2

\* C8: text_complete is set, and a highlight is switched to its bright scene,
\* only by a tick that starts with the pending queue empty and no tree character
\* on an active path; while text_complete holds no tree character has one
C8_CompleteOnlyWhenSettled ==
    /\ [](text_complete =>
            /\ pending_chars = <<>>
            /\ \A i \in DOMAIN tree_chars : tree_chars[i].path = <<>>)
    /\ [](lit # <<>> => text_complete)
    /\ [][ ((~text_complete /\ text_complete') \/ lit' # lit)
           => /\ pending_chars = <<>>
              /\ \A i \in DOMAIN tree_chars : tree_chars[i].path = <<>> ]_vars

C8_Witness == variant = "Christmas" /\ text_complete /\ lit # <<>>

\* C9: a tick of Christmas raises StopIteration exactly when, after its landing
\* check, spawn_stopped is true and background_snow is empty
C9_StopIffStoppedAndEmpty ==
    variant = "Christmas" =>
      (stopped <=> (spawn_stopped /\ background_snow = <<>>))

C9_Witness ==
    /\ variant = "Christmas"
    /\ stopped
    /\ \E e \in LogEvents : e.stopped

\* C10: StopIteration is not raised in ticks 1..600 of the hold, and it is
\* raised in tick 601 when no snowflake has an active path then
C10_EndsAtTick601 ==
    /\ [](stopped => hold_ticks >= 601)
    /\ [][ (hold_ticks = 600 /\ \A i \in DOMAIN background_snow :
                                   background_snow[i].path = <<>>)
           => (hold_ticks' = 601 /\ stopped') ]_vars

C10_Witness == stopped /\ hold_ticks = 601 /\ snow_created > 0

\* C11 as stated: while a highlight waits in lights_to_activate or the input
\* text is unrevealed, fadeout_counter is 0
C11_CounterWaitsForReveal ==
    variant = "Christmas" =>
      ((lights_to_activate # <<>> \/ ~input_chars_revealed) => fadeout_counter = 0)

\* the place of step in the steps of the last tick
StepAt(step) == CHOOSE i \in DOMAIN steps : steps[i] = step

RanAll == { steps[i] : i \in DOMAIN steps } = {"drain", "spawn", "landing", "end"}

\* C12 as stated: in a tick of Christmas or MoreSnow the drain of the pending
\* queue runs before the spawn, the spawn before the landing check, the landing
\* check before the termination test
C12_DrainSpawnLandingEnd ==
    (Stacking /\ steps # <<>>) =>
      /\ RanAll
      /\ StepAt("drain") < StepAt("spawn")
      /\ StepAt("spawn") < StepAt("landing")
      /\ StepAt("landing") < StepAt("end")

\* C12 as amended: a tick of Christmas runs drain, spawn, landing check,
\* termination test in this order; a tick of MoreSnow runs spawn, landing check,
\* drain, termination test in this order
C12_OrderPerVariant ==
    /\ (variant = "Christmas" /\ steps # <<>>)
         => steps = <<"drain", "spawn", "landing", "end">>
    /\ (variant = "MoreSnow" /\ steps # <<>>)
         => steps = <<"spawn", "landing", "drain", "end">>

C12_Witness ==
    /\ variant = "MoreSnow"
    /\ released # <<>>
    /\ spawned # {}
    /\ steps = <<"spawn", "landing", "drain", "end">>

\* C13: once spawn_stopped is true, the landing check hides and removes every
\* snowflake it finds without an active path, whatever the height of its
\* column, and bottom_pile_height does not change any more
C13_DiscardAfterSpawnStop ==
    /\ [](\A e \in LogEvents :
            e.stopped => /\ e.outcome = "removed"
                         /\ e.hidden
                         /\ e.after = e.before
                         /\ e.id \notin SnowIds)
    /\ [][ spawn_stopped'
           => /\ bottom_pile_height' = bottom_pile_height
              /\ \A i \in DOMAIN background_snow :
                   background_snow[i].path = <<>>
                   => /\ \A j \in DOMAIN background_snow' :
                           background_snow'[j].id # background_snow[i].id
                      /\ \E k \in DOMAIN landing_log' :
                           /\ landing_log'[k].id = background_snow[i].id
                           /\ landing_log'[k].stopped ]_vars

C13_Witness ==
    /\ spawn_stopped
    /\ \E e \in LogEvents : e.stopped /\ e.height < 5

\* C14: no snowflake is created in the tick that sets spawn_stopped or in any
\* later tick, and background_snow gains no element in these ticks
C14_NoSnowAfterSpawnStop ==
    [][ spawn_stopped'
        => /\ snow_created' = snow_created
           /\ spawned' = {}
           /\ \A j \in DOMAIN background_snow' :
                \E i \in DOMAIN background_snow :
                  background_snow[i].id = background_snow'[j].id ]_vars

C14_Witness ==
    /\ variant = "Christmas"
    /\ spawn_stopped
    /\ ~stopped
    /\ background_snow # <<>>

\* C15: in MoreSnow the first 3 ticks hold exactly one spawn batch, the batch
\* creates 3 to 6 snowflakes, and background_spawn_delay is 2 at the end of the
\* tick that spawned it
C15_OneBatchInThreeTicks ==
    (variant = "MoreSnow" /\ ticks >= 1) =>
      /\ ticks <= 3 => /\ Len(batch_ticks) = 1
                       /\ batch_ticks[1] \in 1..3
                       /\ snow_created >= 3 /\ snow_created <= 6
      /\ spawned # {} => /\ Cardinality(spawned) >= 3 /\ Cardinality(spawned) <= 6
                         /\ background_spawn_delay = 2
                         /\ batch_ticks[Len(batch_ticks)] = ticks

C15_Witness ==
    /\ variant = "MoreSnow"
    /\ ticks = 3
    /\ batch_ticks = <<1>>
    /\ snow_created = 6

\* C16 as stated: two consecutive spawn batches of MoreSnow are exactly 2 ticks
\* apart
C16_BatchesTwoTicksApart ==
    variant = "MoreSnow" =>
      \A i \in 1..(Len(batch_ticks) - 1) : batch_ticks[i + 1] - batch_ticks[i] = 2

\* C16 as amended: two consecutive spawn batches of MoreSnow are exactly 3 ticks
\* apart (the two ticks between them count the timer down from 2), each batch
\* has 3 to 6 snowflakes, and a tick that starts with the timer at 0 spawns one
C16_BatchesThreeTicksApart ==
    /\ [](variant = "MoreSnow" =>
            /\ \A i \in 1..(Len(batch_ticks) - 1) :
                 batch_ticks[i + 1] - batch_ticks[i] = 3
            /\ spawned # {} => Cardinality(spawned) \in 3..6)
    /\ [][ (variant = "MoreSnow" /\ background_spawn_delay <= 0)
           => Cardinality(spawned') \in 3..6 ]_vars

C16_Witness ==
    /\ variant = "MoreSnow"
    /\ Len(batch_ticks) = 2
    /\ spawned # {}

\* C17 as stated: a tick of Snow raises StopIteration iff pending_chars and
\* active_characters are both empty at its start; every other tick releases 1 to
\* 3 pending characters and returns a frame
C17_ReleasesOneToThree ==
    [][ variant = "Snow"
        => /\ stopped' <=> (pending_chars = <<>> /\ active_characters = {})
           /\ ~stopped' => Len(released') >= 1 /\ Len(released') <= 3 ]_vars

\* C17 as amended: a tick of Snow raises StopIteration iff pending_chars and
\* active_characters are both empty at its start; every other tick returns a
\* frame after releasing min(n, len(pending_chars)) characters for an n in 1..3:
\* at least one while the queue is non-empty, none once it is empty
C17_ReleasesUpToThree ==
    [][ variant = "Snow"
        => /\ stopped' <=> (pending_chars = <<>> /\ active_characters = {})
           /\ ~stopped'
              => /\ Len(released') >= Min(1, Len(pending_chars))
                 /\ Len(released') <= Min(3, Len(pending_chars))
                 /\ Len(pending_chars') = Len(pending_chars) - Len(released')
                 /\ \A i \in DOMAIN released' :
                      /\ \E j \in DOMAIN pending_chars : pending_chars[j] = released'[i]
                      /\ \A j \in DOMAIN pending_chars' : pending_chars'[j] # released'[i]
           /\ stopped' => released' = <<>> /\ pending_chars' = pending_chars ]_vars

C17_Witness ==
    /\ variant = "Snow"
    /\ ~stopped
    /\ pending_chars = <<>>
    /\ released = <<>>
    /\ active_characters # {}

\* C18: a tick of MoreSnow raises StopIteration iff at least 10 time units have
\* passed since construction, whatever pending_chars and background_snow hold;
\* it is the first tick at which they have passed
C18_EndsByTimeOnly ==
    /\ [](variant = "MoreSnow" => (stopped <=> elapsed >= 10))
    /\ [][ (variant = "MoreSnow" /\ stopped') => (elapsed < 10 /\ elapsed' >= 10) ]_vars

C18_Witness ==
    /\ variant = "MoreSnow"
    /\ stopped
    /\ pending_chars # <<>>
    /\ background_snow # <<>>

\* C19 as stated: a tick of Christmas creates a snowflake only if it starts with
\* background_spawn_delay <= 0; a tick that starts with the timer <= 0 leaves it
\* at 3 if it attempts a spawn, a tick that starts with the timer > 0 lowers it
\* by 1 and creates nothing; a tick creates at most one snowflake and the three
\* ticks before a creation create none
C19_TimerAlwaysCountsDown ==
    [][ variant = "Christmas"
        => /\ spawned' # {}
              => /\ background_spawn_delay <= 0
                 /\ background_spawn_delay' = 3
                 /\ Cardinality(spawned') = 1
                 /\ snow_created' = snow_created + 1
                 /\ since_spawn = 3
           /\ (background_spawn_delay <= 0 /\ ~spawn_stopped')
              => background_spawn_delay' = 3
           /\ background_spawn_delay > 0
              => /\ background_spawn_delay' = background_spawn_delay - 1
                 /\ spawned' = {} ]_vars

\* C19 as amended: the same, for the ticks that end with spawn_stopped false; a
\* tick that ends with spawn_stopped true creates nothing and leaves the timer
\* as it is
C19_TimerCountsDownUntilSpawnStop ==
    [][ variant = "Christmas"
        => /\ spawned' # {}
              => /\ background_spawn_delay <= 0
                 /\ background_spawn_delay' = 3
                 /\ Cardinality(spawned') = 1
                 /\ snow_created' = snow_created + 1
                 /\ since_spawn = 3
           /\ (background_spawn_delay <= 0 /\ ~spawn_stopped')
              => background_spawn_delay' = 3
           /\ (background_spawn_delay > 0 /\ ~spawn_stopped')
              => /\ background_spawn_delay' = background_spawn_delay - 1
                 /\ spawned' = {}
           /\ spawn_stopped'
              => /\ background_spawn_delay' = background_spawn_delay
                 /\ spawned' = {} ]_vars

C19_Witness ==
    /\ variant = "Christmas"
    /\ snow_created = 2
    /\ spawned = {2}
    /\ background_spawn_delay = 3

\* the star and ornament characters of the tree
Highlights ==
    { i \in DOMAIN tree_chars :
        \/ TreeSample[i].line < 4
        \/ TreeSample[i].symbol \in {"*", "@", "&", "%", "O", "o", "+"} }

\* C20: the highlights are switched to their bright scene one per tick, each at
\* most once and no other character ever, in non-decreasing order of the row
\* they rest at; when the input text is revealed each has been switched once
C20_LightsBottomUpOnce ==
    /\ [](variant = "Christmas" =>
            /\ \A i \in DOMAIN lit : lit[i] \in Highlights
            /\ \A i, j \in DOMAIN lit :
                 i < j => /\ lit[i] # lit[j]
                          /\ tree_chars[lit[i]].coord.row <= tree_chars[lit[j]].coord.row
            /\ input_chars_revealed => { lit[i] : i \in DOMAIN lit } = Highlights)
    /\ [][ variant = "Christmas" =>
             \/ lit' = lit
             \/ /\ Len(lit') = Len(lit) + 1
                /\ SubSeq(lit', 1, Len(lit)) = lit
                /\ light_delay' = 3 ]_vars

C20_Witness ==
    /\ variant = "Christmas"
    /\ input_chars_revealed
    /\ Len(lit) >= 2
    /\ lit[1] > lit[2]
    /\ Highlights # DOMAIN tree_chars

\* the input characters in the active set
ActiveInput(active) == { c \in active : c[1] = "input" }

\* C21: in Christmas the input text is revealed (flag set, characters added to
\* the active set) once: only in a tick that leaves text_complete true and the
\* highlight queue empty, which is the tick that activates the last highlight
\* (or sets text_complete when there is no highlight); the reveal is not
\* delayed past that tick, no input character is active before it and none
\* is added to the active set after it.
C21_RevealOnceAfterLights ==
    [][variant = "Christmas" =>
         /\ (~input_chars_revealed /\ input_chars_revealed') =>
               /\ text_complete' /\ lights_to_activate' = <<>>
               /\ \/ Len(lit') = Len(lit) + 1
                  \/ (~text_complete /\ lit' = <<>>)
               /\ \A i \in DOMAIN input_chars :
                     <<"input", i>> \in active_characters'
                     \/ ~HasActivePath(input_chars'[i])
         /\ (text_complete' /\ lights_to_activate' = <<>>) => input_chars_revealed'
         /\ ~input_chars_revealed' =>
               (ActiveInput(active_characters') = {} /\ input_chars' = input_chars)
         /\ input_chars_revealed =>
               /\ input_chars_revealed'
               /\ ActiveInput(active_characters') \subseteq ActiveInput(active_characters)
      ]_vars

\* the text was revealed after two or more highlights and a character of it is
\* still sliding in
C21_Witness ==
    /\ variant = "Christmas" /\ input_chars_revealed
    /\ Len(lit) >= 2 /\ lights_to_activate = <<>>
    /\ ActiveInput(active_characters) # {}

\* C22: in Christmas the acceleration step acts exactly in the first call, at
\* or after the reveal, that finds no input character with an active path, and
\* never again; when it acts, every snowflake with an active path gets the
\* single-waypoint path to (its current column, canvas.bottom), and snowflakes
\* without an active path, the pile map, the membership and order of
\* background_snow and every other field are left as they were (path_speeds,
\* the record of the paths created, grows by the new paths).
C22_AccelerateOnceFrame ==
    variant = "Christmas" =>
      \A num \in 1..2 :
        LET pre == BeforeAccelerate(State, num)
            post == ChristmasAccelerate(pre)
            settled == \A i \in DOMAIN pre.input_chars : ~HasActivePath(pre.input_chars[i])
        IN /\ post.snow_accelerated
                = (pre.snow_accelerated \/ (pre.input_chars_revealed /\ settled))
           /\ (pre.snow_accelerated \/ ~post.snow_accelerated) => post = pre
           /\ (~pre.snow_accelerated /\ post.snow_accelerated) =>
                /\ DOMAIN post.background_snow = DOMAIN pre.background_snow
                /\ \A i \in DOMAIN pre.background_snow :
                      LET old == pre.background_snow[i]
                          new == post.background_snow[i]
                      IN IF HasActivePath(old)
                         THEN new = [old EXCEPT
                                !.path = <<Coord(old.coord.column, pre.canvas.bottom)>>]
                         ELSE new = old
                /\ post.bottom_pile_height = pre.bottom_pile_height
                /\ [post EXCEPT !.background_snow = pre.background_snow,
                                !.path_speeds = pre.path_speeds,
                                !.snow_accelerated = FALSE] = pre

\* the acceleration step is about to act on a snowflake in flight whose path is
\* not yet the straight fall
C22_Witness ==
    /\ variant = "Christmas" /\ ~stopped /\ hold_ticks < horizon
    /\ \E num \in 1..2 :
         LET pre == BeforeAccelerate(State, num)
             post == ChristmasAccelerate(pre)
         IN /\ ~pre.snow_accelerated /\ post.snow_accelerated
            /\ \E i \in DOMAIN pre.background_snow :
                  /\ HasActivePath(pre.background_snow[i])
                  /\ post.background_snow[i].path # pre.background_snow[i].path

\* the row a tree character comes to rest at
FinalRow(i) == TreeChars(canvas)[i].final.row

\* the elements of a sequence
Range(seq) == { seq[k] : k \in DOMAIN seq }

\* seq lists tree characters in non-decreasing order of final row
BottomFirst(seq) ==
    \A a, b \in DOMAIN seq : a < b => FinalRow(seq[a]) <= FinalRow(seq[b])

\* C23: in Christmas the pending queue is drained from its front and is in
\* non-decreasing order of final row, so the characters a tick releases are in
\* that order and none of them has a smaller final row than a character
\* released in an earlier tick.
C23_TreeReleasedBottomFirst ==
    [][variant = "Christmas" =>
         /\ BottomFirst(pending_chars)
         /\ pending_chars = released' \o pending_chars'
         /\ \A i \in DOMAIN tree_chars, j \in Range(released') :
               i \notin Range(pending_chars) => FinalRow(i) <= FinalRow(j)
      ]_vars

\* the last tree character has just been released, after one with a smaller
\* final row was released in an earlier tick
C23_Witness ==
    /\ variant = "Christmas" /\ pending_chars = <<>> /\ released # <<>>
    /\ \E i \in DOMAIN tree_chars, j \in Range(released) :
         i \notin Range(released) /\ FinalRow(i) < FinalRow(j)

\* the row of the text line an input character belongs to; canvas.bottom is
\* the smallest row
LineRow(i) == input_chars[i].input_coord.row

\* seq lists input characters in non-decreasing order of text line row
LowerLineFirst(seq) ==
    \A a, b \in DOMAIN seq : a < b => LineRow(seq[a]) <= LineRow(seq[b])

\* C24: in Snow and MoreSnow a character of a lower text line is never
\* released from the pending queue after a character of a higher text line,
\* neither within one tick nor across ticks.
C24_LowerLineReleasedFirst ==
    [][(variant = "Snow" \/ variant = "MoreSnow") =>
         /\ LowerLineFirst(released')
         /\ \A i \in DOMAIN input_chars, j \in Range(released') :
               i \notin Range(pending_chars) => LineRow(i) <= LineRow(j)
      ]_vars

\* C25: in Christmas every snowflake the pile tracker has placed rests at a row
\* between canvas.bottom and canvas.top, and of two snowflakes stacked in the
\* same column the one stacked on the higher pile rests at the larger row.
C25_StackedInsideCanvasUpward ==
    variant = "Christmas" =>
      /\ \A i \in DOMAIN background_snow :
            background_snow[i].stacks >= 1
            => background_snow[i].coord.row \in (canvas.bottom)..(canvas.top)
      /\ \A e \in LogEvents :
            e.outcome = "stacked" => e.after.row \in (canvas.bottom)..(canvas.top)
      /\ \A e1, e2 \in LogEvents :
            (e1.outcome = "stacked" /\ e2.outcome = "stacked"
             /\ e1.column = e2.column /\ e1.height < e2.height)
            => e1.after.row < e2.after.row

\* C26: in Christmas and MoreSnow the landing check of a tick neither stacks
\* nor removes a snowflake created by that tick: after the tick the snowflake
\* is in background_snow, was never stacked, and no landing event of the tick
\* is about it.
C26_FreshSnowSkipsLanding ==
    Stacking =>
      /\ spawned \subseteq SnowIds
      /\ \A i \in DOMAIN background_snow :
            background_snow[i].id \in spawned => background_snow[i].stacks = 0
      /\ \A e \in LogEvents : e.id \notin spawned

\* a tick has created snowflakes and its landing check has stacked or removed
\* another one
C26_Witness ==
    /\ Stacking /\ spawned # {} /\ landing_log # <<>>
    /\ \E e \in LogEvents : e.id \in SnowIds \ spawned

\* C27: in Christmas each of text_complete, input_chars_revealed,
\* snow_accelerated and spawn_stopped, once true, stays true, and in every
\* reachable state snow_accelerated implies input_chars_revealed,
\* input_chars_revealed implies text_complete, and spawn_stopped implies
\* text_complete.
C27_FlagsSetOnceAndOrdered ==
    /\ [](variant = "Christmas" =>
            /\ snow_accelerated => input_chars_revealed
            /\ input_chars_revealed => text_complete
            /\ spawn_stopped => text_complete)
    /\ [][variant = "Christmas" =>
            /\ text_complete => text_complete'
            /\ input_chars_revealed => input_chars_revealed'
            /\ snow_accelerated => snow_accelerated'
            /\ spawn_stopped => spawn_stopped'
         ]_vars

\* a run with an input text has set all four flags
C27_Witness ==
    /\ variant = "Christmas" /\ input_chars # <<>>
    /\ text_complete /\ input_chars_revealed /\ snow_accelerated /\ spawn_stopped

\* a character of the active set that has an active path
TreeInFlight(i) ==
    i \in DOMAIN tree_chars /\ <<"tree", i>> \in active_characters
    /\ HasActivePath(tree_chars[i])

InputInFlight(i) ==
    i \in DOMAIN input_chars /\ <<"input", i>> \in active_characters
    /\ HasActivePath(input_chars[i])

SnowInFlight(id) ==
    \E j \in DOMAIN background_snow :
      background_snow[j].id = id /\ HasActivePath(background_snow[j])

\* every activated path completes after finitely many ticks
PathsComplete ==
    /\ \A i \in 1..MaxTree : []<>~TreeInFlight(i)
    /\ \A i \in 1..MaxText : []<>~InputInFlight(i)
    /\ \A id \in 1..MaxHoldSnow : []<>~SnowInFlight(id)

\* C28: if every activated path completes after finitely many ticks, a
\* Christmas run eventually raises StopIteration, with the pending queue
\* empty, text_complete and spawn_stopped true and background_snow empty.
C28_RunEnds ==
    PathsComplete =>
      <>(/\ stopped
         /\ pending_chars = <<>> /\ text_complete /\ spawn_stopped
         /\ background_snow = <<>>)

\* a run that created snow has raised StopIteration
C28_Witness ==
    /\ variant = "Christmas" /\ stopped /\ spawn_stopped /\ text_complete
    /\ pending_chars = <<>> /\ background_snow = <<>> /\ snow_created > 0

\* C29: in Christmas no highlight is activated before text_complete is set; the
\* first is activated in the tick that sets it and the others follow 4 ticks
\* apart: after the n-th tick counted from that one (hold_ticks = n), 1 + (n-1)
\* div 4 highlights have been activated, or all L of them if that is fewer, so
\* all are lit from tick 1 + 4*(L-1) on.
C29_LightsFourTicksApart ==
    variant = "Christmas" =>
      /\ ~text_complete => (lit = <<>> /\ hold_ticks = 0)
      /\ text_complete =>
            /\ hold_ticks >= 1
            /\ Len(lit) = Min(Cardinality(Highlights), 1 + ((hold_ticks - 1) \div 4))
            /\ Len(lit) = Cardinality(Highlights)
                  <=> hold_ticks >= 1 + 4 * (Cardinality(Highlights) - 1)

\* the second highlight has just been activated, 4 ticks after the first
C29_Witness ==
    /\ variant = "Christmas" /\ text_complete
    /\ Len(lit) = 2 /\ hold_ticks = 5 /\ light_delay = 3

\* C30: in Christmas fadeout_counter is at most 601 and is 0 while
\* text_complete is false; a tick whose spawn step finds text_complete true
\* and spawn_stopped false adds exactly 1 to it, and every other tick leaves
\* it unchanged, in particular every tick after spawn_stopped is set.
C30_CounterCountsHoldTicks ==
    /\ [](variant = "Christmas" =>
            /\ fadeout_counter \in 0..(HoldThreshold + 1)
            /\ ~text_complete => fadeout_counter = 0)
    /\ [][variant = "Christmas" =>
            IF text_complete' /\ ~spawn_stopped
            THEN fadeout_counter' = fadeout_counter + 1
            ELSE fadeout_counter' = fadeout_counter
         ]_vars

\* a tick has run after the one that set spawn_stopped, the counter at 601
C30_Witness ==
    /\ variant = "Christmas" /\ spawn_stopped
    /\ fadeout_counter = HoldThreshold + 1 /\ hold_ticks = HoldThreshold + 2

\* C31: the fall path of a background snowflake spawned at column c ends with
\* a vertical segment (the final waypoint has the column of the last sway
\* waypoint), its final column lies between clamp(c - 5) and clamp(c + 2), and
\* the first sway goes to the left: its waypoint is at clamp(c - a) for the
\* first amount a drawn from 1..3, left of c unless c is canvas.left already.
C31_FinalColumnAndFirstSwayLeft ==
    (gen # NoPath /\ gen.kind = "background") =>
      LET path == gen.path
          cv == gen.canvas
          c == gen.start.column
          n == Len(path)
      IN /\ n >= 2
         /\ path[n].column = path[n - 1].column
         /\ path[n].column >= Clamped(cv, c - 5)
         /\ path[n].column <= Clamped(cv, c + 2)
         /\ gen.amounts[1] \in 1..3
         /\ path[1].column = Clamped(cv, c - gen.amounts[1])
         /\ path[1].column <= c
         /\ path[1].column < c <=> c > cv.left

\* a snowflake spawned at column 7 whose path ends 5 columns to the left,
\* inside the canvas
C31_Witness ==
    /\ gen # NoPath /\ gen.kind = "background"
    /\ gen.start.column - 5 > gen.canvas.left
    /\ gen.path[Len(gen.path)].column = gen.start.column - 5

\* the snow paths the last tick created by spawning a snowflake
SpawnedPaths == { e \in path_speeds : e.by = "spawn" }

\* the snow paths the last tick created by accelerating a snowflake in flight
FasterPaths == { e \in path_speeds : e.by = "accelerate" }

\* C32: in Christmas a snowflake spawned by a tick whose spawn step finds
\* input_chars_revealed false gets speed multiplier 1.0, one spawned in or
\* after the tick that reveals the input text gets 2.0, and 2.5 times the base
\* speed is used only by the acceleration of the snow in flight, in the one
\* tick that sets snow_accelerated
C32_ThreeSpeedRegimes ==
    [][ variant = "Christmas"
        => /\ \A e \in SpawnedPaths' :
                 /\ e.id \in spawned'
                 /\ ~input_chars_revealed' => e.speed = 10
                 /\ input_chars_revealed' => e.speed = 20
           /\ \A id \in spawned' : \E e \in SpawnedPaths' : e.id = id
           /\ \A e \in FasterPaths' :
                 /\ e.speed = 25
                 /\ e.id \notin spawned'
                 /\ ~snow_accelerated /\ snow_accelerated'
           /\ path_speeds' = SpawnedPaths' \cup FasterPaths' ]_vars

\* the tick that revealed the text (the one that activated the last light,
\* four ticks after each earlier one) spawned a snowflake at twice the speed
C32_Witness ==
    /\ variant = "Christmas"
    /\ input_chars_revealed
    /\ Len(lit) >= 1 /\ hold_ticks = 4 * Len(lit) - 3
    /\ \E e \in SpawnedPaths : e.speed = 20
====
